---- MODULE Spec2Model ----
(***************************************************************************)
(* Model of the CommUnity application engine (src/App.tsx, src/types.ts,   *)
(* src/components/Navigation.tsx, src/unnamed/part_000): the view          *)
(* state machine of App, the post store (posts state of App) with the feed *)
(* filter of HomeView, the compose flow of CreatePostView, the             *)
(* conversation component ChatDetailView with its asynchronous handleSend, *)
(* and the gateway functions of the gemini service with their callers in   *)
(* CreatePostView, AdminView and MapView.                                  *)
(*                                                                         *)
(* Conventions.  Ids are decimal strings in the source; they are modelled  *)
(* by numbers: 'p<n>' and Date.now().toString() by n, the literal message  *)
(* ids 'init' and 'err' by the negative numbers IdInit and IdErr.  A       *)
(* component that is not mounted has its local state at the useState       *)
(* defaults.  The variable lastOp is a history variable naming the handler *)
(* that ran in the last step ("setView" for the view changes, "back" for   *)
(* the back buttons, with the number of sends in flight when a             *)
(* conversation is left, "setState" for the steps that only set component  *)
(* state, "returns" with the call, the outcome and the result when a       *)
(* gateway call returns); born (in a post) and the fields uIdx, pIdx, got  *)
(* of a running send are history fields as well, and so is lastSearch.     *)
(* The role of the current user is the prop currentUser.isAdmin of         *)
(* HomeView; the build hands it CURRENT_USER, an admin.                    *)
(***************************************************************************)
EXTENDS Integers, Sequences, FiniteSets, TLC

VARIABLES
    view,          \* App: useState<ViewState>                (App.tsx:1235)
    posts,         \* App: useState<Post[]>                   (App.tsx:1236)
    activeChatId,  \* App: useState<string | null>            (App.tsx:1237)
    activeTab,     \* HomeView: useState<PostCategory>        (App.tsx:206)
    selectedType,  \* CreatePostView: selected category       (App.tsx:346)
    draft,         \* CreatePostView: body text               (App.tsx:334)
    urgency,       \* CreatePostView: urgency level           (App.tsx:338)
    now,           \* the reading of Date.now()
    nCreated,      \* history: number of posts created so far
    apiKey,        \* process.env.API_KEY present             (App.tsx:852)
    isAdmin,       \* HomeView: the prop currentUser.isAdmin  (App.tsx:205)
    messages,      \* ChatDetailView: useState<Message[]>     (App.tsx:835)
    input,         \* ChatDetailView: input box               (App.tsx:836)
    isTyping,      \* ChatDetailView: typing indicator        (App.tsx:837)
    chatSession,   \* ChatDetailView: backend handle present  (App.tsx:839)
    sends,         \* handleSend invocations suspended at an await
    timers,        \* pending setTimeout callbacks of the mock reply
    nSends,        \* history: sends accepted by the mounted conversation
    nChunks,       \* history: chunks delivered to the mounted conversation
    backendCalls,  \* history: number of sendMessageStream calls
    isEnhancing,     \* CreatePostView: refine in progress      (App.tsx:340)
    isGeneratingImg, \* CreatePostView: image in progress       (App.tsx:341)
    generatedImage,  \* CreatePostView: the generated image     (App.tsx:342)
    showImgPrompt,   \* CreatePostView: image prompt panel      (App.tsx:343)
    imgPrompt,       \* CreatePostView: image prompt            (App.tsx:344)
    insight,         \* AdminView: useState(...)                (App.tsx:1094)
    query,           \* MapView: search box                     (App.tsx:654)
    userLoc,         \* MapView: geolocation result             (App.tsx:655)
    isSearching,     \* MapView: search in progress             (App.tsx:656)
    searchResults,   \* MapView: result of the last search      (App.tsx:657)
    lastSearch,      \* history: the call of the latest search submitted
    calls,           \* gateway calls that have not returned yet
    lastOp         \* history: the handler that ran in the last step

vars == << view, posts, activeChatId, activeTab, selectedType, draft, urgency,
           now, nCreated, apiKey, isAdmin, messages, input, isTyping, chatSession,
           sends, timers, nSends, nChunks, backendCalls, isEnhancing,
           isGeneratingImg, generatedImage, showImgPrompt, imgPrompt,
           insight, query, userLoc, isSearching, searchResults, lastSearch,
           calls,
           lastOp >>

appVars     == << view, activeChatId >>
envVars     == << apiKey, isAdmin >>
homeVars    == << activeTab >>
composeVars == << selectedType, draft, urgency >>
storeVars   == << posts, nCreated >>
chatVars    == << messages, input, isTyping, chatSession, sends, timers,
                  nSends, nChunks, backendCalls >>
composeAiVars == << isEnhancing, isGeneratingImg, generatedImage,
                    showImgPrompt, imgPrompt >>
adminVars   == << insight >>
mapVars     == << query, userLoc, isSearching, searchResults, lastSearch >>
assistVars  == << composeAiVars, adminVars, mapVars, calls >>

----------------------------------------------------------------------------
(* Bounds of the model                                                     *)

MaxCreates  == 1     \* posts created in one run of Spec or ComposeSpec
MaxRepeats  == 2     \* posts created in one run of StoreSpec
MaxShort    == 1     \* one-millisecond clock steps in one run
MaxLong     == 1     \* clock jumps of ReplyDelay in one run
MaxMessages == 7     \* length of the transcript of a conversation, counting
                     \* the messages its pending handlers may still append
MaxChunks   == 2     \* chunks delivered to one mounted conversation
MaxCalls    == 2     \* gateway calls that have not returned yet
ClockStart  == 10    \* first reading of Date.now(); above every literal id

----------------------------------------------------------------------------
(* types.ts                                                                *)

Null == "null"
Undefined == "undefined"

ViewState == { "SPLASH", "ONBOARDING", "AUTH_LOGIN", "AUTH_SIGNUP",
               "AUTH_VERIFY", "HOME", "MAP", "CHATS", "CHAT_DETAIL",
               "PROFILE", "MARKETPLACE", "ADMIN", "CREATE_POST" }

All == "All"
PostCategory == { All, "Help", "Ideas", "Events", "Marketplace", "Safety" }
ConcreteCategory == PostCategory \ { All }

AlertLevels == { "info", "warning", "emergency" }

\* CURRENT_USER.isAdmin
CurrentUserIsAdmin == TRUE

INITIAL_POSTS ==
    << [ id |-> 1, category |-> "Help", content |-> "plumber",
         image |-> Undefined, alertLevel |-> Undefined, born |-> 0 ],
       [ id |-> 2, category |-> "Safety", content |-> "park",
         image |-> Undefined, alertLevel |-> "warning", born |-> 0 ],
       [ id |-> 3, category |-> "Marketplace", content |-> "bicycle",
         image |-> "picsum", alertLevel |-> Undefined, born |-> 0 ] >>

\* the type picker of the compose flow: the "General" option carries
\* PostCategory.ALL
options == { "Help", "Ideas", "Events", "Marketplace", "Safety", All }

\* the bodies a user types
Drafts == { "", "hello" }

\* the ids handleDeletePost may be called with
PostIds == { 1, 2, 3 } \cup (ClockStart .. ClockStart + MaxShort)

----------------------------------------------------------------------------
(* ChatsView and ChatDetailView: constants                                 *)

\* the conversations of the chats list ('c2' and 'c3' behave as 'c1')
AiChatId == "ai-assistant"
ChatIds == { AiChatId, "c1" }

\* literal message ids: 'init', 'err'; the mock transcript uses '1', '2', '3'
IdInit == -1
IdErr  == -2

\* setTimeout(..., 1000) of the mock reply
ReplyDelay == 1000

\* A text is a sequence of symbols; " " is the whitespace symbol.  The
\* fixed texts of the source are one symbol each.
Greeting    == << "Hello! I'm here to help" >>
Unavailable == << "AI Service Unavailable (Missing Key)" >>
Trouble     == << "Sorry, I'm having trouble connecting right now." >>
GotItEcho   == << "Thanks!" >>       \* a reply with another text
GotIt       == << "Got it, thanks!" >>

\* what the user types into the input box
Inputs == { << >>, << " " >>, << "H", "i" >> }

\* The text of the n-th chunk of the k-th response stream is either empty
\* (a chunk without text) or the one symbol ChunkSyms[k][n].
ChunkSyms == << << "a", "b", "c" >>, << "d", "e", "f" >>,
                << "g", "h", "i" >>, << "j", "k", "l" >> >>

ChunkTexts(k, n) == { << >>, << ChunkSyms[k][n] >> }

\* a send to a backend appends two messages or more
SendNos == 1 .. (MaxMessages \div 2)

NoSend == [ phase |-> "none", responseId |-> 0, fullText |-> << >>,
            n |-> 0, uIdx |-> 0, pIdx |-> 0, got |-> << >> ]

\* a handleSend invocation that has returned has no locals left
Returned == [ NoSend EXCEPT !.phase = "returned" ]

----------------------------------------------------------------------------
(* Navigation.tsx                                                          *)

mainViews == { "HOME", "MAP", "CREATE_POST", "CHATS", "PROFILE",
               "MARKETPLACE", "ADMIN" }

navItems == { "HOME", "MARKETPLACE", "CREATE_POST", "CHATS", "PROFILE" }

\* a navigation bar that is rendered on every screen
NavigationShownAlways(v) == TRUE

\* if (!mainViews.includes(currentView) && currentView !== CREATE_POST)
\*     return null;
NavigationShown(v) == ~ ( v \notin mainViews /\ v # "CREATE_POST" )

----------------------------------------------------------------------------
(* The feed of HomeView                                                    *)

\* a filter that tests for inequality
FeedKeepsOthers(p, tab) == tab = All \/ p.category # tab

\* posts.filter(p => activeTab === PostCategory.ALL || p.category === activeTab)
FeedKeeps(p, tab) == tab = All \/ p.category = tab

RECURSIVE FilterSeq(_, _)
FilterSeq(s, tab) ==
    IF s = << >> THEN << >>
    ELSE IF FeedKeeps(Head(s), tab)
         THEN << Head(s) >> \o FilterSeq(Tail(s), tab)
         ELSE FilterSeq(Tail(s), tab)

listByCategory(tab) == FilterSeq(posts, tab)

Feed == listByCategory(activeTab)

----------------------------------------------------------------------------
(* The store operations of App                                             *)

\* a store that adds at the end
PrependAtEnd(newPost, prev) == prev \o << newPost >>

\* setPosts(prev => [newPost, ...prev])
Prepend(newPost, prev) == << newPost >> \o prev

\* a filter that keeps the post it should drop
DeleteKeepsTarget(p, postId) == p.id = postId

\* prev.filter(p => p.id !== postId)
DeleteKeeps(p, postId) == p.id # postId

RECURSIVE RemoveId(_, _)
RemoveId(prev, postId) ==
    IF prev = << >> THEN << >>
    ELSE IF DeleteKeeps(Head(prev), postId)
         THEN << Head(prev) >> \o RemoveId(Tail(prev), postId)
         ELSE RemoveId(Tail(prev), postId)

----------------------------------------------------------------------------
(* Mounting and unmounting of the screens                                  *)

ComposeDefaults ==
    /\ selectedType' = Null
    /\ draft' = ""
    /\ urgency' = "info"
    /\ isEnhancing' = FALSE
    /\ isGeneratingImg' = FALSE
    /\ generatedImage' = Null
    /\ showImgPrompt' = FALSE
    /\ imgPrompt' = ""

\* AdminView: useState("Analyzing latest community data...")
Analyzing == "Analyzing latest community data..."

\* userLoc and searchResults are null
NoLoc == [ known |-> FALSE, lat |-> 0, lng |-> 0 ]
NoResults == [ present |-> FALSE, text |-> "", chunks |-> << >> ]

\* no search was submitted
NoCall == [ fn |-> "none", text |-> "", corpus |-> << >>, query |-> << >>,
            loc |-> NoLoc, live |-> FALSE ]

MapDefaults ==
    /\ query' = << >>
    /\ userLoc' = NoLoc
    /\ isSearching' = FALSE
    /\ searchResults' = NoResults
    /\ lastSearch' = NoCall

\* the component that made the calls is unmounted: what the calls set when
\* they return is set on a component that is gone
Unmounted(cs) == { [ c EXCEPT !.live = FALSE ] : c \in cs }

\* the local state of the screens after view changes to v
Remount(v) ==
    /\ activeTab' = IF v = "HOME" /\ view = "HOME" THEN activeTab ELSE All
    /\ IF v = "CREATE_POST" /\ view = "CREATE_POST"
       THEN UNCHANGED << composeVars, composeAiVars >>
       ELSE ComposeDefaults
    /\ IF v = "ADMIN" /\ view = "ADMIN"
       THEN UNCHANGED adminVars
       ELSE insight' = Analyzing
    /\ IF v = "MAP" /\ view = "MAP"
       THEN UNCHANGED mapVars
       ELSE MapDefaults
    /\ calls' = IF v = view THEN calls ELSE Unmounted(calls)

----------------------------------------------------------------------------
(* The view state machine of App and the store handlers                    *)

Op(name, arg) == [ op |-> name, arg |-> arg ]

\* setView(v) where it leaves the store and the conversation alone
Goto(v) ==
    /\ view' = v
    /\ Remount(v)
    /\ lastOp' = Op("setView", 0)
    /\ UNCHANGED << activeChatId, storeVars, now, envVars, chatVars >>

\* SplashView: setTimeout(onComplete, 2000)
SplashComplete ==
    /\ view = "SPLASH"
    /\ Goto("ONBOARDING")

\* OnboardingView: "Skip", or "Get Started" on the last slide
OnboardingFinish ==
    /\ view = "ONBOARDING"
    /\ Goto("AUTH_LOGIN")

\* AuthView: onLogin
AuthLogin ==
    /\ view \in { "AUTH_LOGIN", "AUTH_SIGNUP" }
    /\ Goto("HOME")

\* Navigation: onClick={() => setView(item.view)}
NavSetView ==
    /\ NavigationShown(view)
    /\ \E v \in navItems : Goto(v)

\* HomeView header: the map button
HomeOpenMap ==
    /\ view = "HOME"
    /\ Goto("MAP")

\* a header that shows the admin button to every user
AdminButtonAlways(role) == TRUE

\* HomeView header: {currentUser.isAdmin && (<button ...>)}
AdminButtonShown(role) == role

\* HomeView header: the admin button, rendered only for an admin
HomeOpenAdmin ==
    /\ view = "HOME"
    /\ AdminButtonShown(isAdmin)
    /\ Goto("ADMIN")

\* HomeView: onClick={() => setActiveTab(tab)}
SetActiveTab ==
    /\ view = "HOME"
    /\ \E tab \in PostCategory : activeTab' = tab
    /\ lastOp' = Op("setState", 0)
    /\ UNCHANGED << appVars, composeVars, storeVars, now, envVars,
                    assistVars, chatVars >>

\* a back target that is the chats list for every screen
onBackToChats(v) == "CHATS"

\* renderView: the onBack prop handed to the screen of view v
onBack(v) ==
    IF v = "CHAT_DETAIL" THEN "CHATS"
    ELSE IF v \in { "CREATE_POST", "MAP", "ADMIN" } THEN "HOME"
    ELSE v

\* the back button of a screen that keeps no conversation
Back ==
    /\ view' = onBack(view)
    /\ Remount(onBack(view))
    /\ lastOp' = Op("back", 0)
    /\ UNCHANGED << activeChatId, storeVars, now, envVars, chatVars >>

\* MapView, AdminView: onBack={() => setView(ViewState.HOME)}
MapBack ==
    /\ view = "MAP"
    /\ Back

AdminBack ==
    /\ view = "ADMIN"
    /\ Back

\* CreatePostView: the Header with onBack is rendered by the type picker only
CreatePostBack ==
    /\ view = "CREATE_POST"
    /\ selectedType = Null
    /\ Back

\* ProfileView: handleLogout
HandleLogout ==
    /\ view = "PROFILE"
    /\ Goto("AUTH_LOGIN")

----------------------------------------------------------------------------
(* CreatePostView                                                          *)

\* the type picker: onClick={() => setSelectedType(opt.type)}
SetSelectedType ==
    /\ view = "CREATE_POST"
    /\ selectedType = Null
    /\ \E t \in options : selectedType' = t
    /\ lastOp' = Op("setState", 0)
    /\ UNCHANGED << appVars, homeVars, draft, urgency, storeVars, now, envVars,
                    assistVars, chatVars >>

\* the editor's back arrow: onClick={() => setSelectedType(null)}
ClearSelectedType ==
    /\ view = "CREATE_POST"
    /\ selectedType # Null
    /\ selectedType' = Null
    /\ lastOp' = Op("setState", 0)
    /\ UNCHANGED << appVars, homeVars, draft, urgency, storeVars, now, envVars,
                    assistVars, chatVars >>

\* the textarea: onChange={(e) => setDraft(e.target.value)}
SetDraft ==
    /\ view = "CREATE_POST"
    /\ selectedType # Null
    /\ \E d \in Drafts : draft' = d
    /\ lastOp' = Op("setState", 0)
    /\ UNCHANGED << appVars, homeVars, selectedType, urgency, storeVars, now,
                    envVars, assistVars, chatVars >>

\* the urgency buttons, rendered for a Safety post
SetUrgency ==
    /\ view = "CREATE_POST"
    /\ selectedType = "Safety"
    /\ \E lvl \in AlertLevels : urgency' = lvl
    /\ lastOp' = Op("setState", 0)
    /\ UNCHANGED << appVars, homeVars, selectedType, draft, storeVars, now,
                    envVars, assistVars, chatVars >>

\* a guard that forgets the body
PostRejectedNoBody == selectedType = Null

\* handlePost: if (!selectedType || !draft) return;
PostRejected == selectedType = Null \/ draft = ""

\* a Post object that carries the urgency for every category
NewPostAlerting ==
    [ id         |-> now,
      category   |-> selectedType,
      content    |-> draft,
      image      |-> IF generatedImage # Null THEN generatedImage
                                              ELSE Undefined,
      alertLevel |-> urgency,
      born       |-> nCreated + 1 ]

\* handlePost: the Post object handed to onSubmit
NewPost ==
    [ id         |-> now,
      category   |-> selectedType,
      content    |-> draft,
      image      |-> IF generatedImage # Null THEN generatedImage
                                              ELSE Undefined,
      alertLevel |-> IF selectedType = "Safety" THEN urgency ELSE Undefined,
      born       |-> nCreated + 1 ]

\* handlePost, with handleCreatePost as its onSubmit
HandlePost ==
    /\ view = "CREATE_POST"
    /\ lastOp' = Op("handlePost", 0)
    /\ IF PostRejected
       THEN UNCHANGED << appVars, homeVars, composeVars, storeVars, now,
                         envVars, assistVars, chatVars >>
       ELSE /\ posts' = Prepend(NewPost, posts)
            /\ nCreated' = nCreated + 1
            /\ view' = "HOME"
            /\ Remount("HOME")
            /\ UNCHANGED << activeChatId, now, envVars, chatVars >>

----------------------------------------------------------------------------
(* AdminView                                                               *)

\* handleDeletePost: if (window.confirm(...)) setPosts(prev => prev.filter(...))
HandleDeletePost ==
    /\ view = "ADMIN"
    /\ \E postId \in PostIds, confirmed \in BOOLEAN :
          /\ posts' = IF confirmed THEN RemoveId(posts, postId) ELSE posts
          /\ lastOp' = IF confirmed THEN Op("handleDeletePost", postId)
                                    ELSE Op("deleteCancelled", 0)
    /\ UNCHANGED << appVars, homeVars, composeVars, nCreated, now, envVars,
                    assistVars,
                    chatVars >>

----------------------------------------------------------------------------
(* The clock                                                               *)

\* a millisecond passes
Tick ==
    /\ (now - ClockStart) % ReplyDelay < MaxShort
    /\ now' = now + 1
    /\ UNCHANGED << appVars, homeVars, composeVars, storeVars, envVars,
                    assistVars,
                    chatVars, lastOp >>

\* ReplyDelay milliseconds pass while a mock reply is pending
TickLong ==
    /\ timers # << >>
    /\ (now - ClockStart) \div ReplyDelay < MaxLong
    /\ now' = now + ReplyDelay
    /\ UNCHANGED << appVars, homeVars, composeVars, storeVars, envVars,
                    assistVars,
                    chatVars, lastOp >>

----------------------------------------------------------------------------
(* ChatDetailView: mounting                                                *)

isAi == activeChatId = AiChatId

Msg(id, sender, text) == [ id |-> id, sender |-> sender, text |-> text ]

MockTranscript ==
    << Msg(1, "other", << "Did anyone see the red car?" >>),
       Msg(2, "user",  << "No, when was this?" >>),
       Msg(3, "other", << "About 20 mins ago." >>) >>

\* the init effect of ChatDetailView for conversation chatId
InitialMessages(chatId) ==
    IF chatId = AiChatId
    THEN IF apiKey THEN << Msg(IdInit, "ai", Greeting) >>
                   ELSE << Msg(IdErr, "ai", Unavailable) >>
    ELSE MockTranscript

InitialSession(chatId) == chatId = AiChatId /\ apiKey

ChatDefaults ==
    /\ messages' = << >>
    /\ input' = << >>
    /\ isTyping' = FALSE
    /\ chatSession' = FALSE
    /\ sends' = [ k \in SendNos |-> NoSend ]
    /\ timers' = << >>
    /\ nSends' = 0
    /\ nChunks' = 0
    /\ backendCalls' = 0

\* ChatsView: handleSelectChat; ChatDetailView mounts and runs its effect
HandleSelectChat ==
    /\ view = "CHATS"
    /\ \E chatId \in ChatIds :
          /\ activeChatId' = chatId
          /\ messages' = InitialMessages(chatId)
          /\ chatSession' = InitialSession(chatId)
    /\ view' = "CHAT_DETAIL"
    /\ lastOp' = Op("setView", 0)
    /\ UNCHANGED << homeVars, composeVars, storeVars, now, envVars,
                    assistVars, input,
                    isTyping, sends, timers, nSends, nChunks, backendCalls >>

\* a switch without the fallback of the CHAT_DETAIL case
renderViewNoFallback(v, chatId) == v

\* renderView: the screen shown for view v and active chat chatId; case
\* CHAT_DETAIL: activeChatId ? <ChatDetailView ... /> : <ChatsView ... />
renderView(v, chatId) ==
    IF v = "CHAT_DETAIL" /\ chatId = Null THEN "CHATS" ELSE v

\* what is on the screen
Rendered == renderView(view, activeChatId)

\* ChatDetailView: onBack={() => setView(ViewState.CHATS)}; the component
\* unmounts, and what its suspended handlers set later is not observed
ChatBack ==
    /\ view = "CHAT_DETAIL"
    /\ view' = onBack(view)
    /\ ChatDefaults
    /\ lastOp' = Op("back", Cardinality({ k \in SendNos :
                            sends[k].phase \in { "await", "stream" } }))
    /\ UNCHANGED << activeChatId, homeVars, composeVars, storeVars, now,
                    envVars, assistVars >>

----------------------------------------------------------------------------
(* ChatDetailView: handleSend                                              *)

IsSpace(c) == c = " "

\* String.prototype.trim
RECURSIVE TrimLeft(_)
TrimLeft(t) ==
    IF t # << >> /\ IsSpace(Head(t)) THEN TrimLeft(Tail(t)) ELSE t

RECURSIVE TrimRight(_)
TrimRight(t) ==
    IF t # << >> /\ IsSpace(t[Len(t)])
    THEN TrimRight(SubSeq(t, 1, Len(t) - 1)) ELSE t

trim(t) == TrimRight(TrimLeft(t))

\* a guard that forgets to trim
SendRejectedNoTrim == input = << >>

\* if (!input.trim()) return;
SendRejected == trim(input) = << >>

\* onChange={(e) => setInput(e.target.value)}
SetInput ==
    /\ view = "CHAT_DETAIL"
    /\ \E v \in Inputs : input' = v
    /\ lastOp' = Op("setState", 0)
    /\ UNCHANGED << appVars, homeVars, composeVars, storeVars, now, envVars,
                    assistVars,
                    messages, isTyping, chatSession, sends, timers, nSends,
                    nChunks, backendCalls >>

\* prev.map(m => m.id === responseId ? { ...m, text: fullText } : m)
SetText(prev, responseId, fullText) ==
    [ i \in DOMAIN prev |->
        IF prev[i].id = responseId
        THEN [ prev[i] EXCEPT !.text = fullText ]
        ELSE prev[i] ]

\* the first send slot not yet used by the mounted conversation
FreeSlot == nSends + 1

\* the messages the pending handlers may still append
Reserved ==
    LET ToCome(k) == IF sends[k].phase = "await" THEN 2
                     ELSE IF sends[k].phase = "stream" THEN 1 ELSE 0
        RECURSIVE Sum(_)
        Sum(k) == IF k = 0 THEN 0 ELSE ToCome(k) + Sum(k - 1)
    IN  Sum(MaxMessages \div 2) + Len(timers)

\* the messages an accepted send appends at most
Needed == IF isAi THEN (IF chatSession THEN 3 ELSE 1) ELSE 2

\* handleSend up to its first suspension
HandleSend ==
    /\ view = "CHAT_DETAIL"
    /\ lastOp' = Op("handleSend", 0)
    /\ IF SendRejected
       THEN UNCHANGED << appVars, homeVars, composeVars, storeVars, now,
                         envVars, assistVars, chatVars >>
       ELSE /\ Len(messages) + Reserved + Needed <= MaxMessages
            /\ nSends' = nSends + 1
            /\ messages' = Append(messages, Msg(now, "user", input))
            /\ input' = << >>
            /\ IF isAi /\ chatSession
               THEN /\ isTyping' = TRUE
                    /\ sends' = [ sends EXCEPT ![FreeSlot] =
                                    [ NoSend EXCEPT !.phase = "await",
                                        !.uIdx = Len(messages) + 1 ] ]
                    /\ backendCalls' = backendCalls + 1
                    /\ UNCHANGED timers
               ELSE IF ~ isAi
               THEN /\ timers' = Append(timers, now + ReplyDelay)
                    /\ UNCHANGED << isTyping, sends, backendCalls >>
               ELSE UNCHANGED << isTyping, sends, timers, backendCalls >>
            /\ UNCHANGED << appVars, homeVars, composeVars, storeVars, now,
                            envVars, assistVars, chatSession, nChunks >>

\* what a step of a suspended handleSend leaves alone
SendFrame ==
    UNCHANGED << appVars, homeVars, composeVars, storeVars, now, envVars,
                 assistVars,
                 input, chatSession, timers, nSends, backendCalls >>

\* a step of a suspended handleSend that consumes no chunk
NoChunk == UNCHANGED nChunks

\* catch: the 'err' message; finally: setIsTyping(false)
CatchFinally(k, name) ==
    /\ messages' = Append(messages, Msg(IdErr, "ai", Trouble))
    /\ isTyping' = FALSE
    /\ sends' = [ sends EXCEPT ![k] = Returned ]
    /\ lastOp' = Op(name, k)

\* await chatSession.sendMessageStream(...) resolves: the placeholder
StreamOpen ==
    \E k \in SendNos :
       /\ sends[k].phase = "await"
       /\ messages' = Append(messages, Msg(now + 1, "ai", << >>))
       /\ sends' = [ sends EXCEPT ![k].phase = "stream",
                                  ![k].responseId = now + 1,
                                  ![k].pIdx = Len(messages) + 1 ]
       /\ lastOp' = Op("setState", 0)
       /\ UNCHANGED isTyping
       /\ NoChunk
       /\ SendFrame

\* await chatSession.sendMessageStream(...) throws
StreamOpenFails ==
    \E k \in SendNos :
       /\ sends[k].phase = "await"
       /\ CatchFinally(k, "openError")
       /\ NoChunk
       /\ SendFrame

\* one iteration of for await (const chunk of result)
StreamChunk ==
    \E k \in SendNos :
       /\ sends[k].phase = "stream"
       /\ nChunks < MaxChunks
       /\ nChunks' = nChunks + 1
       /\ \E t \in ChunkTexts(k, sends[k].n + 1) :
          LET full == sends[k].fullText \o t IN
          /\ sends' = [ sends EXCEPT ![k].n = @ + 1,
                                     ![k].got = @ \o t,
                                     ![k].fullText =
                                         IF t # << >> THEN full ELSE @ ]
          /\ messages' = IF t # << >>
                         THEN SetText(messages, sends[k].responseId, full)
                         ELSE messages
       /\ lastOp' = Op("setState", 0)
       /\ UNCHANGED isTyping
       /\ SendFrame

\* the stream ends; finally: setIsTyping(false)
StreamEnd ==
    \E k \in SendNos :
       /\ sends[k].phase = "stream"
       /\ sends' = [ sends EXCEPT ![k] = Returned ]
       /\ isTyping' = FALSE
       /\ lastOp' = Op("streamEnd", k)
       /\ UNCHANGED messages
       /\ NoChunk
       /\ SendFrame

\* the stream throws while it is iterated
StreamThrows ==
    \E k \in SendNos :
       /\ sends[k].phase = "stream"
       /\ CatchFinally(k, "streamError")
       /\ NoChunk
       /\ SendFrame

\* the setTimeout callback of the mock reply
MockReply ==
    /\ timers # << >>
    /\ now >= Head(timers)
    /\ timers' = Tail(timers)
    /\ messages' = Append(messages, Msg(now, "other", GotIt))
    /\ lastOp' = Op("setState", 0)
    /\ UNCHANGED << appVars, homeVars, composeVars, storeVars, now, envVars,
                    assistVars,
                    input, isTyping, chatSession, sends, nSends, nChunks,
                    backendCalls >>

----------------------------------------------------------------------------
(* The gemini service (src/unnamed/part_000)                               *)

\* let ai: GoogleGenAI | null; if (apiKey) ai = new GoogleGenAI(...)
ai == apiKey

KeyMissing         == "API Key missing. Please configure your environment."
ServicesUnavailable == "AI services unavailable."
NoInsights         == "No insights available."
CouldNotAnalyze    == "Could not analyze trends."
ServiceUnavailable == "AI service unavailable. Please check API Key."
NoResultsFound     == "No results found."
CouldNotSearch     == "Could not perform search at this time."
ImageData          == "data:image/png;base64,<data>"

\* What ai.models.generateContent does: it throws, or it resolves with a
\* response that has a text or none, an inline image part or none, and
\* grounding chunks.
Outcome(kind, hasText, text, image, chunks) ==
    [ kind |-> kind, hasText |-> hasText, text |-> text, image |-> image,
      chunks |-> chunks ]

Throws == Outcome("throws", FALSE, << >>, FALSE, << >>)

\* the backend was not called
NoOutcome == Outcome("none", FALSE, << >>, FALSE, << >>)

TextOutcomes ==
    { Throws,
      Outcome("ok", FALSE, << >>, FALSE, << >>),
      Outcome("ok", TRUE, << " " >>, FALSE, << >>),
      Outcome("ok", TRUE, << " ", "Dear neighbours", " " >>, FALSE, << >>) }

ImageOutcomes ==
    { Throws,
      Outcome("ok", TRUE, << "Here is your image" >>, FALSE, << >>),
      Outcome("ok", FALSE, << >>, TRUE, << >>) }

TrendOutcomes ==
    { Throws,
      Outcome("ok", FALSE, << >>, FALSE, << >>),
      Outcome("ok", TRUE, << " ", "Safety comes first", " " >>, FALSE,
              << >>) }

SearchOutcomes ==
    { Throws,
      Outcome("ok", FALSE, << >>, FALSE, << >>),
      Outcome("ok", TRUE, << "Two cafes nearby" >>, FALSE, << "Cafe Uno" >>) }

\* the outcomes of a call made with or without a backend
Outcomes(S) == IF ai THEN S ELSE { NoOutcome }

\* the string of a text of at most one symbol
StringOf(t) == IF t = << >> THEN "" ELSE t[1]

\* response.text?.trim(), with "" for undefined (both are falsy)
TrimmedText(out) == IF out.hasText THEN StringOf(trim(out.text)) ELSE ""

\* What a gateway function hands to its caller: the value of the promise
\* (a string, null, or text and chunks), or a rejection; invoked tells
\* whether generateContent was called.
Value(text, chunks, invoked) ==
    [ raised |-> FALSE, text |-> text, chunks |-> chunks,
      invoked |-> invoked ]

Raised == [ raised |-> TRUE, text |-> Null, chunks |-> << >>,
            invoked |-> TRUE ]

\* a refinement that reports an error and echoes the draft without a key
generatePostEnhancementEcho(d, out) ==
    IF ~ ai THEN Value(d, << >>, FALSE)
    ELSE IF out.kind = "throws" THEN Value(KeyMissing, << >>, TRUE)
    ELSE Value(IF TrimmedText(out) # "" THEN TrimmedText(out) ELSE d,
               << >>, TRUE)

\* generatePostEnhancement(draft, type); type enters the prompt only
generatePostEnhancement(d, out) ==
    IF ~ ai THEN Value(KeyMissing, << >>, FALSE)
    ELSE IF out.kind = "throws" THEN Value(d, << >>, TRUE)
    ELSE Value(IF TrimmedText(out) # "" THEN TrimmedText(out) ELSE d,
               << >>, TRUE)

\* an image generation without the catch
generateCommunityImageNoCatch(prompt, out) ==
    IF ~ ai THEN Value(Null, << >>, FALSE)
    ELSE IF out.kind = "throws" THEN Raised
    ELSE Value(IF out.image THEN ImageData ELSE Null, << >>, TRUE)

\* generateCommunityImage(prompt)
generateCommunityImage(prompt, out) ==
    IF ~ ai THEN Value(Null, << >>, FALSE)
    ELSE IF out.kind = "throws" THEN Value(Null, << >>, TRUE)
    ELSE Value(IF out.image THEN ImageData ELSE Null, << >>, TRUE)

\* analyzeCommunityTrends(posts)
analyzeCommunityTrends(corpus, out) ==
    IF ~ ai THEN Value(ServicesUnavailable, << >>, FALSE)
    ELSE IF out.kind = "throws" THEN Value(CouldNotAnalyze, << >>, TRUE)
    ELSE Value(IF TrimmedText(out) # "" THEN TrimmedText(out)
                                        ELSE NoInsights, << >>, TRUE)

\* the fixed fallback coordinate 37.7749, -122.4194, in whole degrees
FallbackLatLng == [ lat |-> 37, lng |-> -122 ]

\* const lat = userLocation?.lat || 37.7749;
\* const lng = userLocation?.lng || -122.4194;
\* (undefined and 0 are falsy)
latLng(loc) ==
    [ lat |-> IF loc.known /\ loc.lat # 0 THEN loc.lat
                                          ELSE FallbackLatLng.lat,
      lng |-> IF loc.known /\ loc.lng # 0 THEN loc.lng
                                          ELSE FallbackLatLng.lng ]

\* searchMapPlaces(query, userLocation)
searchMapPlaces(q, loc, out) ==
    IF ~ ai THEN Value(ServiceUnavailable, << >>, FALSE)
    ELSE IF out.kind = "throws" THEN Value(CouldNotSearch, << >>, TRUE)
    ELSE Value(IF out.hasText /\ StringOf(out.text) # ""
               THEN StringOf(out.text) ELSE NoResultsFound,
               out.chunks, TRUE)

----------------------------------------------------------------------------
(* Gateway calls of the screens                                            *)

\* A call that has not returned: the function, its arguments at the time
\* of the call, and whether the component that made it is still mounted.
\* Calls that agree in all of these are one element of calls.
Call(fn, text, corpus, q, loc) ==
    [ fn |-> fn, text |-> text, corpus |-> corpus, query |-> q, loc |-> loc,
      live |-> TRUE ]

\* a component that takes what a call returns after it was unmounted
AppliesAlways(c) == TRUE

\* the continuation of an await sets the state of its own component; on an
\* unmounted component that sets nothing
Applies(c) == c.live

\* the retrievalConfig.latLng of the request of call c, if c made one with
\* coordinates
RequestLatLng(c, r) ==
    IF c.fn = "search" /\ r.invoked THEN latLng(c.loc)
                                    ELSE [ lat |-> 0, lng |-> 0 ]

\* the step in which call c returned r after the backend did out
Returns(c, out, r) ==
    /\ calls' = calls \ { c }
    /\ lastOp' = Op("returns", [ call |-> c, out |-> out, result |-> r,
                                 latLng |-> RequestLatLng(c, r) ])

\* what the user types as an image prompt
ImgPrompts == { "", "garden" }

\* handleEnhance up to its await
HandleEnhance ==
    /\ view = "CREATE_POST"
    /\ selectedType # Null
    /\ ~ isEnhancing
    /\ lastOp' = Op("handleEnhance", 0)
    /\ IF draft = ""
       THEN UNCHANGED << isEnhancing, calls >>
       ELSE /\ Cardinality(calls) < MaxCalls
            /\ isEnhancing' = TRUE
            /\ calls' = calls \cup
                          { Call("enhance", draft, << >>, << >>, NoLoc) }
    /\ UNCHANGED << appVars, homeVars, composeVars, storeVars, now, envVars,
                    chatVars, isGeneratingImg, generatedImage,
                    showImgPrompt, imgPrompt, adminVars, mapVars >>

\* handleEnhance after its await: setDraft(enhanced); setIsEnhancing(false)
EnhanceReturns ==
    \E c \in calls, out \in Outcomes(TextOutcomes) :
       /\ c.fn = "enhance"
       /\ LET r == generatePostEnhancement(c.text, out) IN
          /\ Returns(c, out, r)
          /\ IF Applies(c) /\ ~ r.raised
             THEN /\ draft' = r.text
                  /\ isEnhancing' = FALSE
             ELSE UNCHANGED << draft, isEnhancing >>
       /\ UNCHANGED << appVars, homeVars, selectedType, urgency, storeVars,
                       now, envVars, chatVars, isGeneratingImg,
                       generatedImage, showImgPrompt, imgPrompt, adminVars,
                       mapVars >>

\* the "Generate Image" button: setShowImgPrompt(!showImgPrompt)
ToggleImgPrompt ==
    /\ view = "CREATE_POST"
    /\ selectedType # Null
    /\ showImgPrompt' = ~ showImgPrompt
    /\ lastOp' = Op("setState", 0)
    /\ UNCHANGED << appVars, homeVars, composeVars, storeVars, now, envVars,
                    chatVars, isEnhancing, isGeneratingImg, generatedImage,
                    imgPrompt, adminVars, mapVars, calls >>

\* the prompt box: onChange={(e) => setImgPrompt(e.target.value)}
SetImgPrompt ==
    /\ view = "CREATE_POST"
    /\ selectedType # Null
    /\ showImgPrompt
    /\ \E v \in ImgPrompts : imgPrompt' = v
    /\ lastOp' = Op("setState", 0)
    /\ UNCHANGED << appVars, homeVars, composeVars, storeVars, now, envVars,
                    chatVars, isEnhancing, isGeneratingImg, generatedImage,
                    showImgPrompt, adminVars, mapVars, calls >>

\* the image preview: onClick={() => setGeneratedImage(null)}
ClearGeneratedImage ==
    /\ view = "CREATE_POST"
    /\ selectedType # Null
    /\ generatedImage # Null
    /\ generatedImage' = Null
    /\ lastOp' = Op("setState", 0)
    /\ UNCHANGED << appVars, homeVars, composeVars, storeVars, now, envVars,
                    chatVars, isEnhancing, isGeneratingImg, showImgPrompt,
                    imgPrompt, adminVars, mapVars, calls >>

\* handleGenerateImage up to its await
HandleGenerateImage ==
    /\ view = "CREATE_POST"
    /\ selectedType # Null
    /\ showImgPrompt
    /\ ~ isGeneratingImg
    /\ lastOp' = Op("handleGenerateImage", 0)
    /\ IF imgPrompt = ""
       THEN UNCHANGED << isGeneratingImg, calls >>
       ELSE /\ Cardinality(calls) < MaxCalls
            /\ isGeneratingImg' = TRUE
            /\ calls' = calls \cup
                          { Call("image", imgPrompt, << >>, << >>, NoLoc) }
    /\ UNCHANGED << appVars, homeVars, composeVars, storeVars, now, envVars,
                    chatVars, isEnhancing, generatedImage, showImgPrompt,
                    imgPrompt, adminVars, mapVars >>

\* handleGenerateImage after its await
ImageReturns ==
    \E c \in calls, out \in Outcomes(ImageOutcomes) :
       /\ c.fn = "image"
       /\ LET r == generateCommunityImage(c.text, out) IN
          /\ Returns(c, out, r)
          /\ IF Applies(c) /\ ~ r.raised
             THEN /\ isGeneratingImg' = FALSE
                  /\ IF r.text # Null
                     THEN /\ generatedImage' = r.text
                          /\ showImgPrompt' = FALSE
                     ELSE UNCHANGED << generatedImage, showImgPrompt >>
             ELSE UNCHANGED << isGeneratingImg, generatedImage,
                               showImgPrompt >>
       /\ UNCHANGED << appVars, homeVars, composeVars, storeVars, now,
                       envVars, chatVars, isEnhancing, imgPrompt, adminVars,
                       mapVars >>

\* AdminView: setInsight("No posts to analyze yet.")
NothingToAnalyze == "No posts to analyze yet."

\* posts.map(p => p.content)
Contents(ps) == [ i \in DOMAIN ps |-> ps[i].content ]

\* AdminView was rendered with a new posts array (it was mounted, or
\* handleDeletePost has set posts) and its effect has not run yet
EffectPending ==
    /\ view = "ADMIN"
    /\ lastOp.op \in { "setView", "handleDeletePost" }

\* an effect that asks the backend about an empty store as well
NoPostsIgnored(ps) == FALSE

\* the else branch of: if (posts.length > 0)
NoPosts(ps) == Len(ps) = 0

\* AdminView: useEffect(..., [posts])
AdminEffect ==
    /\ EffectPending
    /\ lastOp' = Op("effect", 0)
    /\ IF NoPosts(posts)
       THEN /\ insight' = NothingToAnalyze
            /\ UNCHANGED calls
       ELSE /\ Cardinality(calls) < MaxCalls
            /\ calls' = calls \cup
                          { Call("trends", "", Contents(posts), << >>,
                                 NoLoc) }
            /\ UNCHANGED insight
    /\ UNCHANGED << appVars, homeVars, composeVars, storeVars, now, envVars,
                    chatVars, composeAiVars, mapVars >>

\* analyzeCommunityTrends(...).then(setInsight)
TrendsReturns ==
    \E c \in calls, out \in Outcomes(TrendOutcomes) :
       /\ c.fn = "trends"
       /\ LET r == analyzeCommunityTrends(c.corpus, out) IN
          /\ Returns(c, out, r)
          /\ insight' = IF Applies(c) /\ ~ r.raised THEN r.text
                                                    ELSE insight
       /\ UNCHANGED << appVars, homeVars, composeVars, storeVars, now,
                       envVars, chatVars, composeAiVars, mapVars >>

\* where navigator.geolocation puts the user
Locs == { [ known |-> TRUE, lat |-> 51, lng |-> 0 ] }

\* MapView: the success callback of getCurrentPosition
GeoSuccess ==
    /\ view = "MAP"
    /\ userLoc = NoLoc
    /\ \E l \in Locs : userLoc' = l
    /\ lastOp' = Op("setState", 0)
    /\ UNCHANGED << appVars, homeVars, composeVars, storeVars, now, envVars,
                    chatVars, composeAiVars, adminVars, query, isSearching,
                    searchResults, lastSearch, calls >>

\* the search box: onChange={(e) => setQuery(e.target.value)}
SetQuery ==
    /\ view = "MAP"
    /\ \E v \in Inputs : query' = v
    /\ lastOp' = Op("setState", 0)
    /\ UNCHANGED << appVars, homeVars, composeVars, storeVars, now, envVars,
                    chatVars, composeAiVars, adminVars, userLoc, isSearching,
                    searchResults, lastSearch, calls >>

\* the close button of the results: setSearchResults(null); setQuery('')
ClearSearch ==
    /\ view = "MAP"
    /\ searchResults.present
    /\ searchResults' = NoResults
    /\ query' = << >>
    /\ UNCHANGED lastSearch
    /\ lastOp' = Op("setState", 0)
    /\ UNCHANGED << appVars, homeVars, composeVars, storeVars, now, envVars,
                    chatVars, composeAiVars, adminVars, userLoc, isSearching,
                    calls >>

\* handleSearch up to its await
HandleSearch ==
    /\ view = "MAP"
    /\ lastOp' = Op("handleSearch", 0)
    /\ IF trim(query) = << >>
       THEN UNCHANGED << isSearching, searchResults, lastSearch, calls >>
       ELSE /\ Cardinality(calls) < MaxCalls
            /\ isSearching' = TRUE
            /\ searchResults' = NoResults
            /\ lastSearch' = Call("search", "", << >>, query, userLoc)
            /\ calls' = calls \cup
                          { Call("search", "", << >>, query, userLoc) }
    /\ UNCHANGED << appVars, homeVars, composeVars, storeVars, now, envVars,
                    chatVars, composeAiVars, adminVars, query, userLoc >>

\* handleSearch after its await
SearchReturns ==
    \E c \in calls, out \in Outcomes(SearchOutcomes) :
       /\ c.fn = "search"
       /\ LET r == searchMapPlaces(c.query, c.loc, out) IN
          /\ Returns(c, out, r)
          /\ IF Applies(c) /\ ~ r.raised
             THEN /\ searchResults' = [ present |-> TRUE, text |-> r.text,
                                        chunks |-> r.chunks ]
                  /\ isSearching' = FALSE
             ELSE UNCHANGED << searchResults, isSearching >>
       /\ UNCHANGED lastSearch
       /\ UNCHANGED << appVars, homeVars, composeVars, storeVars, now,
                       envVars, chatVars, composeAiVars, adminVars, query,
                       userLoc >>

----------------------------------------------------------------------------
(* Specifications                                                          *)

\* a step after which at most n posts were created in the run
Created(n) == nCreated' <= n

Defaults ==
    /\ posts = INITIAL_POSTS
    /\ activeChatId = Null
    /\ activeTab = All
    /\ selectedType = Null
    /\ draft = ""
    /\ urgency = "info"
    /\ now = ClockStart
    /\ nCreated = 0
    /\ apiKey \in BOOLEAN
    /\ messages = << >>
    /\ input = << >>
    /\ isTyping = FALSE
    /\ chatSession = FALSE
    /\ sends = [ k \in SendNos |-> NoSend ]
    /\ timers = << >>
    /\ nSends = 0
    /\ nChunks = 0
    /\ backendCalls = 0
    /\ isEnhancing = FALSE
    /\ isGeneratingImg = FALSE
    /\ generatedImage = Null
    /\ showImgPrompt = FALSE
    /\ imgPrompt = ""
    /\ insight = Analyzing
    /\ query = << >>
    /\ userLoc = NoLoc
    /\ isSearching = FALSE
    /\ searchResults = NoResults
    /\ lastSearch = NoCall
    /\ calls = { }

\* the application after construction
Init ==
    /\ view = "SPLASH"
    /\ lastOp = Op("init", 0)
    /\ isAdmin = CurrentUserIsAdmin
    /\ Defaults

\* the views and the store (the conversations are the other specification)
Next ==
    \/ SplashComplete
    \/ OnboardingFinish
    \/ AuthLogin
    \/ NavSetView
    \/ HomeOpenMap
    \/ HomeOpenAdmin
    \/ SetActiveTab
    \/ MapBack
    \/ AdminBack
    \/ CreatePostBack
    \/ HandleLogout
    \/ SetSelectedType
    \/ ClearSelectedType
    \/ SetDraft
    \/ SetUrgency
    \/ HandlePost /\ Created(MaxCreates)
    \/ HandleDeletePost
    \/ Tick

Spec == Init /\ [][Next]_vars

\* the chats list of a logged-in user, before a conversation was opened
ChatInit ==
    /\ view = "CHATS"
    /\ lastOp = Op("setView", 0)
    /\ isAdmin = CurrentUserIsAdmin
    /\ Defaults

\* the conversations
ChatNext ==
    \/ HandleSelectChat
    \/ ChatBack
    \/ SetInput
    \/ HandleSend
    \/ StreamOpen
    \/ StreamOpenFails
    \/ StreamChunk
    \/ StreamEnd
    \/ StreamThrows
    \/ MockReply
    \/ Tick
    \/ TickLong

ChatSpec == ChatInit /\ [][ChatNext]_vars

\* the clock of the run can still pass the delay of a mock reply
CanWait == (now - ClockStart) \div ReplyDelay < MaxLong

\* a conversation with a neighbour that stays open: time passes and the
\* timer callbacks run
MockNext ==
    \/ HandleSelectChat /\ activeChatId' # AiChatId
    \/ SetInput
    \/ CanWait /\ HandleSend
    \/ MockReply
    \/ Tick
    \/ TickLong

MockSpec ==
    /\ ChatInit
    /\ [][MockNext]_vars
    /\ WF_vars(TickLong)
    /\ WF_vars(MockReply)

\* the home screen of a logged-in user
AssistInit ==
    /\ view = "HOME"
    /\ lastOp = Op("setView", 0)
    /\ isAdmin = CurrentUserIsAdmin
    /\ Defaults

\* the categories picked in the runs of ComposeSpec and AssistSpec (the
\* category enters the prompt of a refinement and nothing else of the
\* gateway)
AssistTypes == { "Help" }

PickType == SetSelectedType /\ selectedType' \in AssistTypes

\* the effect of a render runs before the next event of the user
Flushed == ~ EffectPending

\* the compose flow with its gateway calls, and the store it posts to
ComposeNext ==
    \/ NavSetView
    \/ CreatePostBack
    \/ PickType
    \/ ClearSelectedType
    \/ SetDraft
    \/ HandlePost /\ Created(MaxCreates)
    \/ HandleEnhance
    \/ EnhanceReturns
    \/ ToggleImgPrompt
    \/ SetImgPrompt
    \/ ClearGeneratedImage
    \/ HandleGenerateImage
    \/ ImageReturns

ComposeSpec == AssistInit /\ [][ComposeNext]_vars

\* the screens that call the gateway, over the seed store
AssistNext ==
    \/ Flushed /\ NavSetView
    \/ CreatePostBack
    \/ PickType
    \/ ClearSelectedType
    \/ SetDraft
    \/ HandleEnhance
    \/ EnhanceReturns
    \/ ToggleImgPrompt
    \/ SetImgPrompt
    \/ ClearGeneratedImage
    \/ HandleGenerateImage
    \/ ImageReturns
    \/ HomeOpenAdmin
    \/ Flushed /\ AdminBack
    \/ AdminEffect
    \/ TrendsReturns
    \/ HomeOpenMap
    \/ MapBack
    \/ GeoSuccess
    \/ SetQuery
    \/ ClearSearch
    \/ HandleSearch
    \/ SearchReturns

AssistSpec == AssistInit /\ [][AssistNext]_vars

\* the admin panel and the store it moderates
AdminNext ==
    \/ HomeOpenAdmin
    \/ Flushed /\ AdminBack
    \/ Flushed /\ HandleDeletePost
    \/ AdminEffect
    \/ TrendsReturns

AdminSpec == AssistInit /\ [][AdminNext]_vars

\* the store alone: posts of one category are created and deleted
StoreNext ==
    \/ NavSetView
    \/ CreatePostBack
    \/ PickType
    \/ SetDraft
    \/ HandlePost /\ Created(MaxRepeats)
    \/ HomeOpenAdmin
    \/ AdminBack
    \/ HandleDeletePost
    \/ Tick

StoreSpec == AssistInit /\ [][StoreNext]_vars

\* the views alone
NavNext ==
    \/ SplashComplete
    \/ OnboardingFinish
    \/ AuthLogin
    \/ NavSetView
    \/ HomeOpenMap
    \/ HomeOpenAdmin
    \/ MapBack
    \/ AdminBack
    \/ CreatePostBack
    \/ SetSelectedType
    \/ ClearSelectedType
    \/ HandleLogout
    \/ HandleSelectChat
    \/ ChatBack

NavSpec == Init /\ [][NavNext]_vars

\* HomeView is handed a user with the admin role or one without it
RoleInit ==
    /\ view = "SPLASH"
    /\ lastOp = Op("init", 0)
    /\ isAdmin \in BOOLEAN
    /\ Defaults

\* the views and the moderation of the store, for either user
RoleNext ==
    \/ SplashComplete
    \/ OnboardingFinish
    \/ AuthLogin
    \/ NavSetView
    \/ HomeOpenMap
    \/ HomeOpenAdmin
    \/ MapBack
    \/ AdminBack
    \/ CreatePostBack
    \/ HandleLogout
    \/ HandleSelectChat
    \/ ChatBack
    \/ HandleDeletePost

RoleSpec == RoleInit /\ [][RoleNext]_vars

----------------------------------------------------------------------------
(* Properties of the store (specification Spec)                            *)

\* a is b with some elements left out, the others in the same order
RECURSIVE IsSubSeq(_, _)
IsSubSeq(a, b) ==
    IF a = << >> THEN TRUE
    ELSE IF b = << >> THEN FALSE
    ELSE IF Head(a) = Head(b) THEN IsSubSeq(Tail(a), Tail(b))
    ELSE IsSubSeq(a, Tail(b))

\* a post sits before every post that was in the store when it was created;
\* the seed posts keep their order
NewestFirst ==
    \A i, j \in DOMAIN posts :
       i < j => \/ posts[i].born > posts[j].born
                \/ /\ posts[i].born = 0
                   /\ posts[j].born = 0
                   /\ posts[i].id < posts[j].id

\* C1: after any sequence of create and delete operations the feed filtered
\* by "All" is exactly the store, in store order, and the store is
\* newest-first.
C1_FeedAllIsStore ==
    /\ listByCategory(All) = posts
    /\ NewestFirst

\* a created post heads the store after a seed post was deleted
C1_Witness ==
    /\ lastOp.op = "handleDeletePost"
    /\ Len(posts) = 3
    /\ posts[1].born = 1
    /\ listByCategory(All)[1].born = 1

\* C2: for every concrete category C the feed filtered by C holds the stored
\* posts of category C, all of them and no other post, in store order.
C2_FeedByCategory ==
    \A C \in ConcreteCategory :
       LET f == listByCategory(C) IN
       /\ \A i \in DOMAIN f : f[i].category = C
       /\ Len(f) = Cardinality({ i \in DOMAIN posts : posts[i].category = C })
       /\ IsSubSeq(f, posts)

\* the Help tab of a store with a created Help post and other posts
C2_Witness ==
    /\ view = "HOME"
    /\ activeTab = "Help"
    /\ Len(Feed) = 2
    /\ Feed[1].born = 1
    /\ Len(posts) = 4

\* C3: no stored post has category "All"; a create request with the "All"
\* pseudo-category is rejected.
C3_NoAllCategory ==
    \A i \in DOMAIN posts : posts[i].category # All

\* C4: a create request with an empty body or with no category selected
\* changes neither the store nor the active view.
C4_RejectedCreateIsNoOp ==
    [][ ( /\ lastOp' = Op("handlePost", 0)
          /\ (draft = "" \/ selectedType = Null) )
        => ( posts' = posts /\ view' = view /\ nCreated' = nCreated ) ]_vars

\* handlePost has run in the editor with a category and an empty body
C4_Witness ==
    /\ lastOp = Op("handlePost", 0)
    /\ view = "CREATE_POST"
    /\ selectedType = "Help"
    /\ draft = ""
    /\ posts = INITIAL_POSTS

\* C5: delete(id) removes the post with that id, keeps every other post and
\* their order, leaves the store unchanged when the id is absent, and
\* applied a second time changes nothing.
C5_Delete ==
    [][ lastOp'.op = "handleDeletePost" =>
        LET id == lastOp'.arg IN
        /\ \A i \in DOMAIN posts' : posts'[i].id # id
        /\ IsSubSeq(posts', posts)
        /\ Len(posts') = Cardinality({ i \in DOMAIN posts : posts[i].id # id })
        /\ (\A i \in DOMAIN posts : posts[i].id # id) => posts' = posts
        /\ RemoveId(posts', id) = posts' ]_vars

\* the second seed post was deleted, the others are left in their order
C5_Witness ==
    /\ lastOp = Op("handleDeletePost", 2)
    /\ posts = << INITIAL_POSTS[1], INITIAL_POSTS[3] >>

----------------------------------------------------------------------------
(* Properties of a conversation (specification ChatSpec)                   *)

InFlight == { k \in SendNos : sends[k].phase \in { "await", "stream" } }

IsBlank(t) == \A i \in DOMAIN t : t[i] = " "

\* C6: a send whose stream ends normally has appended one user message and
\* one assistant message, and the assistant message's text is the
\* concatenation of the chunks of its stream in arrival order.
C6_StreamedReply ==
    [][ \A k \in SendNos :
          ( lastOp' = Op("streamEnd", k) /\ sends[k].phase = "stream" ) =>
          LET s == sends[k] IN
          /\ messages'[s.uIdx].sender = "user"
          /\ messages'[s.pIdx].sender = "ai"
          /\ messages'[s.pIdx].text = s.got
          /\ Len(messages') = Len(messages) ]_vars

\* C7: when the stream raises an error after the placeholder received some
\* chunks, the placeholder keeps its text, the "trouble connecting" message
\* is appended immediately after it, and the typing indicator is off.
C7_StreamError ==
    [][ \A k \in SendNos :
          ( /\ lastOp' = Op("streamError", k)
            /\ sends[k].phase = "stream"
            /\ sends[k].got # << >> ) =>
          LET s == sends[k] IN
          /\ messages'[s.pIdx].text = s.got
          /\ Len(messages') = s.pIdx + 1
          /\ messages'[s.pIdx + 1] = Msg(IdErr, "ai", Trouble)
          /\ isTyping' = FALSE ]_vars

\* C8: at most one send is in flight in a conversation.
C8_OneSendInFlight ==
    Cardinality(InFlight) <= 1

\* C9: in an AI conversation opened without a backend, once nothing is
\* pending every accepted send has its user message followed by one reply,
\* and the backend was never called.
C9_UnavailableReplies ==
    ( /\ view = "CHAT_DETAIL"
      /\ isAi
      /\ ~ chatSession
      /\ timers = << >>
      /\ InFlight = { } )
    => /\ backendCalls = 0
       /\ Len(messages) = 1 + 2 * nSends
       /\ \A i \in 1 .. nSends :
             /\ messages[2 * i].sender = "user"
             /\ messages[2 * i + 1].sender # "user"

\* C10: a send with an empty or whitespace-only input changes nothing in the
\* conversation and starts no backend call and no reply timer.
C10_BlankSendIsNoOp ==
    [][ ( lastOp' = Op("handleSend", 0) /\ IsBlank(input) )
        => UNCHANGED << messages, input, isTyping, chatSession, sends,
                        timers, nSends, nChunks, backendCalls >> ]_vars

\* a whitespace-only send has run while a response was awaited
C10_Witness ==
    /\ lastOp = Op("handleSend", 0)
    /\ input = << " " >>
    /\ isTyping
    /\ InFlight # { }

\* C11: a conversation with a backend is awaiting a response (typing
\* indicator on) exactly while a send is in flight, from the step that
\* appends the user message to the step that ends the stream or fails, and
\* is ready otherwise; when a stream ends and the conversation is ready
\* again the transcript ends with the user message followed by the assistant
\* message that holds the streamed text.
C11_ReadyAwaiting ==
    [][ ( view' = "CHAT_DETAIL" /\ isAi' /\ chatSession' ) =>
        /\ isTyping' <=> ( InFlight' # { } )
        /\ \A k \in SendNos :
              ( /\ lastOp' = Op("streamEnd", k)
                /\ sends[k].phase = "stream"
                /\ InFlight' = { } ) =>
              LET n == Len(messages') IN
              /\ messages'[n - 1].sender = "user"
              /\ messages'[n].sender = "ai"
              /\ messages'[n].text = sends[k].got ]_vars

\* C12: a CHAT_DETAIL view without a chat id shows the chats list, for no
\* view a detail screen without a subject is shown, and whenever a detail
\* screen is shown the active chat id is the id of a conversation.
C12_ChatDetailHasSubject ==
    /\ renderView("CHAT_DETAIL", Null) = "CHATS"
    /\ \A v \in ViewState : renderView(v, Null) # "CHAT_DETAIL"
    /\ Rendered = "CHAT_DETAIL" => activeChatId \in ChatIds
    /\ ( view = "CHAT_DETAIL" /\ activeChatId = Null ) => Rendered = "CHATS"

\* a conversation is shown and a message was sent in it
C12_Witness ==
    /\ Rendered = "CHAT_DETAIL"
    /\ activeChatId = "c1"
    /\ nSends = 1

----------------------------------------------------------------------------
(* Properties of the gateway and its callers                               *)

\* the last step was the return of a call of fn
HasReturned(fn) == lastOp.op = "returns" /\ lastOp.arg.call.fn = fn

\* the backend of the call that returned in the last step failed
Failed == lastOp.arg.out.kind = "throws"

\* C13: with a backend, a refinement whose backend call fails returns the
\* draft it was given, unmodified, and does not raise.
C13_RefineFailureReturnsDraft ==
    ( HasReturned("enhance") /\ ai /\ Failed ) =>
        /\ ~ lastOp.arg.result.raised
        /\ lastOp.arg.result.text = lastOp.arg.call.text

\* a refinement of "hello" has failed in the editor
C13_Witness ==
    /\ HasReturned("enhance") /\ ai /\ Failed
    /\ lastOp.arg.call.text = "hello"
    /\ lastOp.arg.call.live
    /\ draft = "hello"

\* C14 (as stated): without a backend a refinement returns the key-missing
\* notice for every draft, without a backend call and without raising, and
\* the result is not the draft.
C14_KeyMissingNotDraft ==
    ( HasReturned("enhance") /\ ~ ai ) =>
        /\ ~ lastOp.arg.result.raised
        /\ ~ lastOp.arg.result.invoked
        /\ lastOp.arg.result.text = KeyMissing
        /\ lastOp.arg.result.text # lastOp.arg.call.text

\* C14 (amended): without a backend a refinement returns the key-missing
\* notice for every draft, without a backend call and without raising; the
\* result differs from every draft that is not the notice itself.
C14_KeyMissingNotice ==
    ( HasReturned("enhance") /\ ~ ai ) =>
        /\ ~ lastOp.arg.result.raised
        /\ ~ lastOp.arg.result.invoked
        /\ lastOp.arg.result.text = KeyMissing
        /\ lastOp.arg.call.text # KeyMissing
              => lastOp.arg.result.text # lastOp.arg.call.text

\* a refinement of "hello" has returned without a backend
C14_Witness ==
    /\ HasReturned("enhance") /\ ~ ai
    /\ lastOp.arg.call.text = "hello"
    /\ lastOp.arg.result.text = KeyMissing

\* C15: when a refinement returns to the editor without a backend or after
\* a failed backend call, the body is the body the refinement was asked
\* for, and the editor accepts a post with it.
C15_RefineKeepsDraft ==
    [][ ( /\ lastOp'.op = "returns"
          /\ lastOp'.arg.call.fn = "enhance"
          /\ lastOp'.arg.call.live
          /\ ( ~ ai \/ lastOp'.arg.out.kind = "throws" ) ) =>
        /\ draft' = lastOp'.arg.call.text
        /\ selectedType' # Null => ~ PostRejected' ]_vars

C17_GatewayNeverRaises ==
    [][ lastOp'.op = "returns" =>
        LET c == lastOp'.arg.call
            r == lastOp'.arg.result
            degraded == ~ ai \/ lastOp'.arg.out.kind = "throws"
        IN  /\ ~ r.raised
            /\ ( c.fn = "image" /\ degraded ) => r.text = Null
            /\ ( c.fn = "search" /\ degraded ) =>
                  /\ r.text \in { ServiceUnavailable, CouldNotSearch }
                  /\ r.chunks = << >>
            /\ ( c.fn = "image" /\ r.text = Null ) =>
                  generatedImage' = generatedImage ]_vars

\* an image generation has failed in an editor that holds an image
C17_Witness ==
    /\ HasReturned("image") /\ ai /\ Failed
    /\ lastOp.arg.call.live
    /\ lastOp.arg.result.text = Null
    /\ generatedImage = ImageData

\* C18: what a refinement or an image generation returns after the user
\* has left the editor changes neither the store nor the state of the
\* editor shown then, and an editor that is entered starts with no
\* category, an empty body and no image.
C18_LateResultDropped ==
    [][ /\ ( /\ lastOp'.op = "returns"
              /\ lastOp'.arg.call.fn \in { "enhance", "image" }
              /\ ~ lastOp'.arg.call.live ) =>
              UNCHANGED << posts, nCreated, view, composeVars,
                           composeAiVars >>
        /\ ( view # "CREATE_POST" /\ view' = "CREATE_POST" ) =>
              /\ selectedType' = Null
              /\ draft' = ""
              /\ generatedImage' = Null ]_vars

\* a refinement asked for before the post was submitted has returned a new
\* text while the next post is written
C18_Witness ==
    /\ HasReturned("enhance")
    /\ ~ lastOp.arg.call.live
    /\ lastOp.arg.result.text = "Dear neighbours"
    /\ nCreated = 1
    /\ view = "CREATE_POST"
    /\ draft = "hello"

----------------------------------------------------------------------------
(* Properties of the views (specifications ChatSpec and NavSpec)           *)

\* C19: when an AI conversation that was left while a send was in flight
\* is opened again, its transcript holds the user message of that send.
C19_TranscriptSurvivesLeaving ==
    [][ ( /\ lastOp.op = "back"
          /\ lastOp.arg > 0
          /\ activeChatId = AiChatId
          /\ view' = "CHAT_DETAIL"
          /\ activeChatId' = AiChatId ) =>
        \E i \in DOMAIN messages' : messages'[i].sender = "user" ]_vars

\* C20: a back button leads from the editor, the admin panel and the map
\* to the home screen and from a conversation to the chats list, whatever
\* the views shown before.
C20_BackIsStatic ==
    [][ lastOp'.op = "back" =>
        /\ view \in { "CREATE_POST", "ADMIN", "MAP" } => view' = "HOME"
        /\ view = "CHAT_DETAIL" => view' = "CHATS"
        /\ view \in { "CREATE_POST", "ADMIN", "MAP", "CHAT_DETAIL" } ]_vars

\* the back button of a conversation was pressed
C20_Witness ==
    /\ lastOp.op = "back"
    /\ view = "CHATS"
    /\ activeChatId = "c1"

----------------------------------------------------------------------------
(* Properties of the store under repeated creates (specification           *)
(* StoreSpec)                                                              *)

\* C21: after any sequence of create and delete operations no two posts of
\* the store have the same id, two posts created at the same clock reading
\* included (so a delete removes at most one post).
C21_UniquePostIds ==
    \A i, j \in DOMAIN posts : i # j => posts[i].id # posts[j].id

----------------------------------------------------------------------------
(* Properties of the compose flow and the store (specification Spec)       *)

\* C22: a stored post has an alert level only if its category is Safety,
\* whatever urgency and category were chosen and changed in the compose flow
\* before the post was submitted.
C22_AlertLevelOnlyForSafety ==
    \A i \in DOMAIN posts :
       posts[i].alertLevel # Undefined => posts[i].category = "Safety"

\* a post of another category was created and carries no alert level
C22_Witness ==
    /\ lastOp.op = "handlePost"
    /\ posts[1].born = 1
    /\ posts[1].category = "Help"
    /\ posts[1].alertLevel = Undefined

----------------------------------------------------------------------------
(* Properties of the admin role (specification RoleSpec)                   *)

\* C23: the admin view becomes active only through the admin button of the
\* home screen, and only for a user with the admin role; for a user without
\* it the admin view is never active and no post is ever deleted.
C23_AdminRoleGated ==
    [][ /\ ( view' = "ADMIN" /\ view # "ADMIN" ) =>
              /\ view = "HOME"
              /\ isAdmin
              /\ lastOp' = Op("setView", 0)
        /\ ~ isAdmin => ( view' # "ADMIN" /\ posts' = posts ) ]_vars

\* a user without the admin role is on the home screen, back from the map
C23_Witness ==
    /\ ~ isAdmin
    /\ view = "HOME"
    /\ lastOp.op = "back"

----------------------------------------------------------------------------
(* Properties of the views (specification NavSpec)                         *)

PreLogin == { "SPLASH", "ONBOARDING", "AUTH_LOGIN", "AUTH_SIGNUP",
              "AUTH_VERIFY" }

PostLogin == ViewState \ PreLogin

\* C24: the machine starts in splash; the screens before the login are left
\* only along splash -> onboarding -> login -> home, so no view behind the
\* login is active before a login submit, and a logout (from the profile,
\* to the login screen) is left only by the next login submit.
C24_LoginGate ==
    /\ view = "SPLASH"
    /\ [][ /\ view \in PreLogin =>
                \/ view' = view
                \/ view = "SPLASH" /\ view' = "ONBOARDING"
                \/ view = "ONBOARDING" /\ view' = "AUTH_LOGIN"
                \/ /\ view \in { "AUTH_LOGIN", "AUTH_SIGNUP" }
                   /\ view' = "HOME"
           /\ ( view \in PostLogin /\ view' \in PreLogin ) =>
                ( view = "PROFILE" /\ view' = "AUTH_LOGIN" ) ]_vars

\* the login screen after a logout: a conversation was opened before it
C24_Witness ==
    /\ view = "AUTH_LOGIN"
    /\ activeChatId # Null

----------------------------------------------------------------------------
(* Properties of the transcript (specification ChatSpec)                   *)

IsPrefix(a, b) == Len(a) <= Len(b) /\ SubSeq(b, 1, Len(a)) = a

\* message i is the placeholder of a send whose stream is being consumed
InProgress(i) ==
    \E k \in SendNos : sends[k].phase = "stream" /\ sends[k].pIdx = i

\* C25: within one open conversation the transcript is append-only: a step
\* appends at most one message at the end; no message is removed or
\* reordered, no id or sender changes, and a text changes only by extending
\* the placeholder of a stream in progress.
C25_AppendOnly ==
    [][ ( view = "CHAT_DETAIL" /\ view' = "CHAT_DETAIL" ) =>
        /\ Len(messages) <= Len(messages')
        /\ Len(messages') <= Len(messages) + 1
        /\ \A i \in DOMAIN messages :
              /\ messages'[i].id = messages[i].id
              /\ messages'[i].sender = messages[i].sender
              /\ \/ messages'[i].text = messages[i].text
                 \/ /\ InProgress(i)
                    /\ IsPrefix(messages[i].text, messages'[i].text) ]_vars

\* C28: no two messages of the transcript of an open conversation share an
\* id, for any sequence of sends (sends in quick succession, several
\* failing sends, and sends in a session opened as unavailable included).
C28_UniqueMessageIds ==
    \A i, j \in DOMAIN messages :
       i # j => messages[i].id # messages[j].id

----------------------------------------------------------------------------
(* Properties of a conversation with a neighbour (specification MockSpec)  *)

Count(sender, text) ==
    Cardinality({ i \in DOMAIN messages : /\ messages[i].sender = sender
                                          /\ messages[i].text = text })

\* the canned replies in the transcript
Replies == Count("other", << "Got it, thanks!" >>)

\* C26: in a conversation with a neighbour that stays open, a non-empty send
\* appends the user message at once and is eventually followed by exactly
\* one canned reply "Got it, thanks!": n sends yield n user messages and
\* eventually n replies, and the backend is never called.
C26_CannedReplies ==
    /\ [][ ( lastOp' = Op("handleSend", 0) /\ ~ IsBlank(input) ) =>
           /\ messages' = Append(messages, Msg(now, "user", input))
           /\ nSends' = nSends + 1 ]_vars
    /\ [] ( view = "CHAT_DETAIL" =>
              /\ Count("user", << "H", "i" >>) = nSends
              /\ Replies + Len(timers) = nSends
              /\ Len(messages) = Len(MockTranscript) + nSends + Replies
              /\ backendCalls = 0 )
    /\ \A n \in SendNos : ( nSends >= n ) ~> ( Replies >= n )

\* two sends were answered by two replies
C26_Witness ==
    /\ view = "CHAT_DETAIL"
    /\ ~ isAi
    /\ nSends = 2
    /\ Replies = 2

----------------------------------------------------------------------------
(* Properties of the map search (specification AssistSpec)                 *)

\* C27: a search that reaches the backend sends the coordinates of the
\* caller whenever the caller has coordinates, for every latitude and
\* longitude, 0 included, and the fixed fallback coordinate only when it has
\* none (the geolocation failed or has not answered).
C27_CoordinatesSent ==
    ( HasReturned("search") /\ lastOp.arg.result.invoked ) =>
        LET loc == lastOp.arg.call.loc IN
        lastOp.arg.latLng = IF loc.known
                            THEN [ lat |-> loc.lat, lng |-> loc.lng ]
                            ELSE FallbackLatLng

----------------------------------------------------------------------------
(* Properties of overlapping gateway calls (specifications AdminSpec and   *)
(* AssistSpec)                                                             *)

\* the calls of fn whose component is still mounted
Outstanding(fn) == { c \in calls : c.fn = fn /\ c.live }

\* C29: in the admin view, once every outstanding trend analysis has
\* completed, the insight shown is the one of the current post list: the
\* analysis that completed last is the one started for the current list,
\* and for an empty store the insight is "No posts to analyze yet.".
C29_InsightOfCurrentPosts ==
    ( view = "ADMIN" /\ Flushed /\ Outstanding("trends") = { } ) =>
        /\ ( HasReturned("trends") /\ lastOp.arg.call.live ) =>
              lastOp.arg.call.corpus = Contents(posts)
        /\ posts = << >> => insight = NothingToAnalyze

\* C30: in the map view, while any search is outstanding the searching
\* indicator is on, overlapping searches included, and once all searches
\* have completed the results shown are those of the search submitted last.
C30_OverlappingSearches ==
    view = "MAP" =>
        /\ Outstanding("search") # { } => isSearching
        /\ ( /\ HasReturned("search")
             /\ lastOp.arg.call.live
             /\ Outstanding("search") = { } ) =>
                 lastOp.arg.call = lastSearch

====
